---- MODULE Spec2Model ----
(***************************************************************************)
(* A model of the inventory bookkeeping and order fulfilment code of the   *)
(* SupplyChainSystem repository:                                           *)
(*   - warehouse.py      StorageUnit / Warehouse (capacity-bounded dict)   *)
(*   - Distributor.py    Distributor (dict inventory, transfers)           *)
(*   - final_SCMS.py     Distributor / Retailer / Order (list inventories) *)
(*   - FinancialBase.py  Distributor / Retailer / Order (second variant)   *)
(* A Python dict is a function whose DOMAIN is the set of its keys; a      *)
(* Python list is a sequence.  An exception is the string of its message;  *)
(* "none" stands for a normal return.                                      *)
(***************************************************************************)
EXTENDS Integers, Sequences, FiniteSets, TLC

\* ------------------------------------------------------------------ bounds
\* capacity passed to Warehouse(...) when the ledger is constructed
Capacity == 3
\* quantity arguments are drawn from -MaxQty..MaxQty
MaxQty == 2
\* the model stops growing an inventory beyond this total (or length)
MaxHeld == Capacity + 1
\* a distributor and its retailer hold at most MaxStock products together
MaxStock == 2
\* a retailer places (a distributor numbers) at most MaxOrders orders
MaxOrders == 2
\* expiry dates and today's date are drawn from 1..MaxDate
MaxDate == 3

Products == {"p1", "p2"}
Quantities == (0 - MaxQty)..MaxQty

VARIABLES
    inventory,      \* warehouse.py   Warehouse.inventory   (dict id -> qty)
    dInventory,     \* Distributor.py Distributor.inventory (dict id -> qty)
    rInventory,     \* Distributor.py inventory of the receiving party
    sInventory,     \* final_SCMS.py  Distributor.inventory (list of products)
    sStore,         \* final_SCMS.py  Retailer.inventory    (list of products)
    orders,         \* final_SCMS.py  Retailer.orders       (list of Order)
    order,          \* final_SCMS.py  an Order built by its constructor
    seen,           \* history: every status that Order has had so far
    fInventory,     \* FinancialBase.py Distributor.__inventory (list of cars)
    fStock,         \* FinancialBase.py Store.__stock of the Retailer
    fOrderCount,    \* FinancialBase.py Distributor.__order_count
    fOrder,         \* FinancialBase.py <<the Order order_product returned>>
    fRun,           \* FinancialBase.py the order_product call in progress
    sStore2,        \* final_SCMS.py  a second Retailer's inventory
    orders2,        \* final_SCMS.py  a second Retailer's orders
    xInventory,     \* final_SCMS.py  Warehouse.inventory seen by ExpiryManager
    threads,        \* Distributor.py two distribute_product calls in progress
    shipment,       \* Shipment.py   a Shipment bound for the Warehouse
    transport,      \* Transportation.py a Transportation
    processor,      \* final_SCMS.py  the PaymentProcessor singleton
    manufacturer,   \* final_SCMS.py  a Manufacturer
    last            \* the last call: operation, arguments, outcome, pre-state

ledgerVars == <<inventory, dInventory, rInventory>>
scmsVars   == <<sInventory, sStore, orders>>
finVars    == <<fInventory, fStock, fOrderCount, fOrder>>
orderVars  == <<order, seen>>
unitVars   == <<shipment, transport, processor, manufacturer>>
stepVars   == <<fRun, threads, xInventory, sStore2, orders2, unitVars>>
vars == <<ledgerVars, scmsVars, orderVars, finVars, stepVars, last>>
notLedger == <<scmsVars, orderVars, finVars, stepVars>>

\* no object (Python None)
None == "None"

\* ------------------------------------------------------------ dict helpers
EmptyDict == [x \in {} |-> 0]

\* dict.get(p, d)
Get(inv, p, d) == IF p \in DOMAIN inv THEN inv[p] ELSE d

\* inv[p] = v
Put(inv, p, v) == [x \in (DOMAIN inv) \cup {p} |-> IF x = p THEN v ELSE inv[x]]

\* del inv[p]
Del(inv, p) == [x \in (DOMAIN inv) \ {p} |-> inv[x]]

RECURSIVE SumOver(_, _)
SumOver(inv, keys) ==
    IF keys = {} THEN 0
    ELSE LET k == CHOOSE x \in keys : TRUE
         IN  inv[k] + SumOver(inv, keys \ {k})

\* sum(self.inventory.values())
Sum(inv) == SumOver(inv, DOMAIN inv)

\* ------------------------------------------------- warehouse.py StorageUnit
ErrQuantity == "ValueError: Quantity must be positive."
ErrSpace    == "Exception: Not enough space in the storage unit."
ErrNotFound == "Exception: Product not found."
ErrStock    == "Exception: Not enough stock."

\* store_product with the quantity <= 0 test left out
Mutant_store_product_no_quantity_check(inv, p, q) ==
    IF Sum(inv) + q > Capacity
    THEN [inventory |-> inv, exc |-> ErrSpace]
    ELSE [inventory |-> Put(inv, p, Get(inv, p, 0) + q), exc |-> "none"]

\* store_product that overwrites the entry instead of adding to it
Mutant_store_product_overwrites(inv, p, q) ==
    IF q <= 0
    THEN [inventory |-> inv, exc |-> ErrQuantity]
    ELSE IF Sum(inv) + q > Capacity
    THEN [inventory |-> inv, exc |-> ErrSpace]
    ELSE [inventory |-> Put(inv, p, q), exc |-> "none"]

\* StorageUnit.store_product: the resulting dict and the exception raised
StorageUnit_store_product(inv, p, q) ==
    IF q <= 0
    THEN [inventory |-> inv, exc |-> ErrQuantity]
    ELSE IF Sum(inv) + q > Capacity
    THEN [inventory |-> inv, exc |-> ErrSpace]
    ELSE [inventory |-> Put(inv, p, Get(inv, p, 0) + q), exc |-> "none"]

\* retrieve_product with the stock test left out
Mutant_retrieve_product_no_stock_check(inv, p, q) ==
    IF p \notin DOMAIN inv
    THEN [inventory |-> inv, exc |-> ErrNotFound]
    ELSE LET left == inv[p] - q
         IN  [inventory |-> IF left = 0 THEN Del(inv, p) ELSE Put(inv, p, left),
              exc |-> "none"]

\* retrieve_product with the  if ... == 0: del  left out
Mutant_retrieve_product_keeps_zero(inv, p, q) ==
    IF p \notin DOMAIN inv
    THEN [inventory |-> inv, exc |-> ErrNotFound]
    ELSE IF q > inv[p]
    THEN [inventory |-> inv, exc |-> ErrStock]
    ELSE [inventory |-> Put(inv, p, inv[p] - q), exc |-> "none"]

\* retrieve_product that deletes the entry whatever is left of it
Mutant_retrieve_product_drops_entry(inv, p, q) ==
    IF p \notin DOMAIN inv
    THEN [inventory |-> inv, exc |-> ErrNotFound]
    ELSE IF q > inv[p]
    THEN [inventory |-> inv, exc |-> ErrStock]
    ELSE [inventory |-> Del(inv, p), exc |-> "none"]

\* StorageUnit.retrieve_product: the resulting dict and the exception raised
StorageUnit_retrieve_product(inv, p, q) ==
    IF p \notin DOMAIN inv
    THEN [inventory |-> inv, exc |-> ErrNotFound]
    ELSE IF q > inv[p]
    THEN [inventory |-> inv, exc |-> ErrStock]
    ELSE LET left == inv[p] - q
         IN  [inventory |-> IF left = 0 THEN Del(inv, p) ELSE Put(inv, p, left),
              exc |-> "none"]

\* Warehouse.store_product / retrieve_product: try: super()...; except
\* Exception as e: print(...).  The exception is printed and never escapes.
Warehouse_wrap(r) ==
    [inventory |-> r.inventory, exc |-> r.exc, raised |-> "none",
     printed |-> IF r.exc = "none" THEN "ok" ELSE "Error"]

\* --------------------------------------------------- Distributor.py
MsgPositive == "Quantity must be positive!"

\* Distributor.receive_product: the resulting dict and what was printed
Distributor_receive_product(inv, p, q) ==
    IF q <= 0
    THEN [inventory |-> inv, printed |-> MsgPositive]
    ELSE [inventory |-> Put(inv, p, Get(inv, p, 0) + q), printed |-> "received"]

\* the model's cap on growth
Bounded(inv) == Sum(inv) <= MaxHeld

Call(op, p, q, exc, raised, printed) ==
    [op |-> op, product |-> p, quantity |-> q,
     exc |-> exc, raised |-> raised, printed |-> printed,
     inventory |-> inventory, dInventory |-> dInventory,
     rInventory |-> rInventory]

\* ------------------------------------------------------------------ actions
\* Warehouse.store_product(product_id, quantity)
WarehouseStore(p, q) ==
    LET r == Warehouse_wrap(StorageUnit_store_product(inventory, p, q))
    IN  /\ Bounded(r.inventory)
        /\ inventory' = r.inventory
        /\ last' = Call("store_product", p, q, r.exc, r.raised, r.printed)
        /\ UNCHANGED <<dInventory, rInventory, notLedger>>

\* Warehouse.retrieve_product(product_id, quantity)
WarehouseRetrieve(p, q) ==
    LET r == Warehouse_wrap(StorageUnit_retrieve_product(inventory, p, q))
    IN  /\ Bounded(r.inventory)
        /\ inventory' = r.inventory
        /\ last' = Call("retrieve_product", p, q, r.exc, r.raised, r.printed)
        /\ UNCHANGED <<dInventory, rInventory, notLedger>>

\* Distributor.receive_product(product_id, product_quantity)
DistributorReceive(p, q) ==
    LET r == Distributor_receive_product(dInventory, p, q)
    IN  /\ Bounded(r.inventory)
        /\ dInventory' = r.inventory
        /\ last' = Call("receive_product", p, q, "none", "none", r.printed)
        /\ UNCHANGED <<inventory, rInventory, notLedger>>

\* Distributor.distribute_product(product_id, product_quantity, retailer);
\* the retailer is the one class of the repository with
\* receive_product(product_id, quantity) and .name: another Distributor.
DistributorDistribute(p, q) ==
    IF p \in DOMAIN dInventory /\ q <= dInventory[p]
    THEN LET taken == Put(dInventory, p, dInventory[p] - q)
             r     == Distributor_receive_product(rInventory, p, q)
             src   == IF taken[p] = 0 THEN Del(taken, p) ELSE taken
         IN  /\ Bounded(src) /\ Bounded(r.inventory)
             /\ dInventory' = src
             /\ rInventory' = r.inventory
             /\ last' = Call("distribute_product", p, q, "none", "none", r.printed)
             /\ UNCHANGED <<inventory, notLedger>>
    ELSE /\ last' = Call("distribute_product", p, q, "none", "none",
                         "Not enough stock available or product not found!")
         /\ UNCHANGED <<inventory, dInventory, rInventory, notLedger>>

\* Distributor.receive_from_warehouse(warehouse, product_id, product_quantity);
\* the closing print reads warehouse.warehouse_id, which Warehouse does not
\* define (the id is kept as StorageUnit.__unit_id): AttributeError.
DistributorReceiveFromWarehouse(p, q) ==
    IF p \in DOMAIN inventory /\ q <= inventory[p]
    THEN LET w == Warehouse_wrap(StorageUnit_retrieve_product(inventory, p, q))
             r == Distributor_receive_product(dInventory, p, q)
         IN  /\ Bounded(w.inventory) /\ Bounded(r.inventory)
             /\ inventory' = w.inventory
             /\ dInventory' = r.inventory
             /\ last' = Call("receive_from_warehouse", p, q, w.exc,
                             "AttributeError: warehouse_id", r.printed)
             /\ UNCHANGED <<rInventory, notLedger>>
    ELSE /\ last' = Call("receive_from_warehouse", p, q, "none", "none",
                         "Not enough stock in the warehouse or product not found!")
         /\ UNCHANGED <<inventory, dInventory, rInventory, notLedger>>

\* ------------------------------------------------------------ list helpers
\* sum(1 for p in seq if p.product_id == pid)  /  list.count(x)
Count(seq, x) == Cardinality({i \in DOMAIN seq : seq[i] = x})

\* index of the first element equal to x (the inner for ... break)
IndexOf(seq, x) == CHOOSE i \in DOMAIN seq :
                       seq[i] = x /\ \A j \in 1..(i - 1) : seq[j] # x

\* list.pop(i)
Pop(seq, i) == SubSeq(seq, 1, i - 1) \o SubSeq(seq, i + 1, Len(seq))

\* ------------------------------------------------- final_SCMS.py Order
ValidStatuses == {"Pending", "Processing", "Shipped", "Delivered", "Cancelled"}
ErrStatus == "ValueError: Invalid status."

\* a status string outside the enumeration
Statuses == ValidStatuses \cup {"Returned"}

\* Product.price of the products of the catalogue (> 0, Product.__init__)
Price(p) == IF p = "p1" THEN 10 ELSE 25

\* Order.__init__
Order_init(order_id, product, quantity, price_per_unit) ==
    [order_id |-> order_id, product |-> product, quantity |-> quantity,
     price_per_unit |-> price_per_unit, status |-> "Pending"]

\* update_status that sets whatever it is given
Mutant_update_status_no_validation(o, new_status) ==
    [order |-> [o EXCEPT !.status = new_status], raised |-> "none"]

\* update_status whose list of valid statuses lacks "Delivered"
Mutant_update_status_short_list(o, new_status) ==
    IF new_status \notin ValidStatuses \ {"Delivered"}
    THEN [order |-> o, raised |-> ErrStatus]
    ELSE [order |-> [o EXCEPT !.status = new_status], raised |-> "none"]

\* update_status that refuses to change a Delivered or Cancelled order
Mutant_update_status_terminal(o, new_status) ==
    IF new_status \notin ValidStatuses
    THEN [order |-> o, raised |-> ErrStatus]
    ELSE IF o.status \in {"Delivered", "Cancelled"}
    THEN [order |-> o, raised |-> "none"]
    ELSE [order |-> [o EXCEPT !.status = new_status], raised |-> "none"]

\* Order.update_status: the order afterwards and the exception raised
Order_update_status(o, new_status) ==
    IF new_status \notin ValidStatuses
    THEN [order |-> o, raised |-> ErrStatus]
    ELSE [order |-> [o EXCEPT !.status = new_status], raised |-> "none"]

\* get_order_value that leaves the quantity out
Mutant_get_order_value_unit_price(o) == o.price_per_unit

\* Order.get_order_value
Order_get_order_value(o) ==
    o.quantity * o.price_per_unit

\* ------------------------------- final_SCMS.py Distributor / Retailer
\* Store.add_product / Retailer.receive_product: self.inventory.append
Store_add_product(store, product) == Append(store, product)

\* Distributor.distribute_product, the loop  for _ in range(quantity):
\* pop the first product with the id and hand it to the retailer
RECURSIVE DistributeLoop(_, _, _, _, _)
DistributeLoop(inv, store, pid, n, distributed) ==
    IF n <= 0
    THEN [inventory |-> inv, store |-> store, distributed |-> distributed]
    ELSE IF Count(inv, pid) = 0
    THEN DistributeLoop(inv, store, pid, n - 1, distributed)
    ELSE LET i == IndexOf(inv, pid)
         IN  DistributeLoop(Pop(inv, i), Store_add_product(store, inv[i]),
                            pid, n - 1, distributed + 1)

\* distribute_product with the availability test off by one
Mutant_distribute_product_off_by_one(inv, store, pid, quantity) ==
    IF Count(inv, pid) + 1 < quantity
    THEN [inventory |-> inv, store |-> store, returned |-> FALSE]
    ELSE LET r == DistributeLoop(inv, store, pid, quantity, 0)
         IN  [inventory |-> r.inventory, store |-> r.store,
              returned |-> (r.distributed = quantity)]

\* Distributor.distribute_product(retailer, product, quantity) -> bool
SCMS_distribute_product(inv, store, pid, quantity) ==
    IF Count(inv, pid) < quantity
    THEN [inventory |-> inv, store |-> store, returned |-> FALSE]
    ELSE LET r == DistributeLoop(inv, store, pid, quantity, 0)
         IN  [inventory |-> r.inventory, store |-> r.store,
              returned |-> (r.distributed = quantity)]

notSCMS == <<ledgerVars, orderVars, finVars, stepVars>>

\* Distributor.add_to_inventory(product)
SCMSAddToInventory(p) ==
    /\ Len(sInventory) + Len(sStore) < MaxStock
    /\ sInventory' = Append(sInventory, p)
    /\ last' = [op |-> "add_to_inventory", product |-> p,
                sInventory |-> sInventory, sStore |-> sStore]
    /\ UNCHANGED <<sStore, orders, notSCMS>>

\* Store.add_product(product) on the Retailer
SCMSAddProduct(p) ==
    /\ Len(sInventory) + Len(sStore) < MaxStock
    /\ sStore' = Store_add_product(sStore, p)
    /\ last' = [op |-> "add_product", product |-> p,
                sInventory |-> sInventory, sStore |-> sStore]
    /\ UNCHANGED <<sInventory, orders, notSCMS>>

\* Retailer.place_order(distributor, product, quantity); the order id
\* f"ORD-{n:06d}" is kept as its number n
RetailerPlaceOrder(p, q) ==
    /\ Len(orders) < MaxOrders
    /\ LET o == Order_init(Len(orders) + 1, p, q, Price(p))
           d == SCMS_distribute_product(sInventory, sStore, p, q)
           u == Order_update_status(o, IF d.returned THEN "Shipped"
                                                     ELSE "Cancelled")
       IN  /\ sInventory' = d.inventory
           /\ sStore' = d.store
           /\ orders' = Append(orders, u.order)
           /\ last' = [op |-> "place_order", product |-> p, quantity |-> q,
                       returned |-> IF d.returned THEN "order" ELSE None,
                       raised |-> u.raised,
                       sInventory |-> sInventory, sStore |-> sStore]
    /\ UNCHANGED notSCMS

\* Retailer.place_order(distributor, product, quantity) by a second
\* Retailer on the same Distributor
Retailer2PlaceOrder(p, q) ==
    /\ Len(orders2) < MaxOrders
    /\ LET o == Order_init(Len(orders2) + 1, p, q, Price(p))
           d == SCMS_distribute_product(sInventory, sStore2, p, q)
           u == Order_update_status(o, IF d.returned THEN "Shipped"
                                                     ELSE "Cancelled")
       IN  /\ sInventory' = d.inventory
           /\ sStore2' = d.store
           /\ orders2' = Append(orders2, u.order)
           /\ last' = [op |-> "place_order_2", product |-> p, quantity |-> q,
                       returned |-> IF d.returned THEN "order" ELSE None,
                       raised |-> u.raised,
                       sInventory |-> sInventory, sStore |-> sStore2]
    /\ UNCHANGED <<sStore, orders, ledgerVars, orderVars, finVars, fRun,
                   threads, xInventory, unitVars>>

\* Order.update_status(new_status) on the standalone Order
OrderUpdateStatus(new_status) ==
    /\ LET u == Order_update_status(order, new_status)
       IN  /\ order' = u.order
           /\ seen' = seen \cup {u.order.status}
           /\ last' = [op |-> "update_status", new_status |-> new_status,
                       status |-> order.status, raised |-> u.raised]
    /\ UNCHANGED <<ledgerVars, scmsVars, finVars, stepVars>>

\* ----------------------------- FinancialBase.py Distributor / Retailer
\* price_per_unit that Retailer.order_product gives every Order
FinPricePerUnit == 100000

\* Order.__init__
Fin_Order_init(order_id, product, quantity, price_per_unit) ==
    [order_id |-> order_id, product |-> product, quantity |-> quantity,
     price_per_unit |-> price_per_unit, status |-> "Pending"]

\* Order.update_order_status: self.status = new_status
Fin_update_order_status(o, new_status) == [o EXCEPT !.status = new_status]

\* Distributor.distribute_product, the loop  for _ in range(quantity):
\* self.__inventory.remove(car); retailer.receive_product(car)
RECURSIVE FinMoveLoop(_, _, _, _)
FinMoveLoop(inv, stock, car, n) ==
    IF n <= 0
    THEN [inventory |-> inv, stock |-> stock, raised |-> "none"]
    ELSE IF Count(inv, car) = 0
    THEN [inventory |-> inv, stock |-> stock,
          raised |-> "ValueError: list.remove(x): x not in list"]
    ELSE FinMoveLoop(Pop(inv, IndexOf(inv, car)), Append(stock, car),
                     car, n - 1)

\* Distributor.distribute_product(retailer, car, quantity, order); an
\* exception of the loop is caught and printed, the status then unset
Fin_distribute_product(inv, stock, car, quantity, o) ==
    IF Count(inv, car) >= quantity
    THEN LET r == FinMoveLoop(inv, stock, car, quantity)
         IN  [inventory |-> r.inventory, stock |-> r.stock,
              order |-> IF r.raised = "none"
                        THEN Fin_update_order_status(o, "Shipped")
                        ELSE o]
    ELSE [inventory |-> inv, stock |-> stock,
          order |-> Fin_update_order_status(o, "Cancelled")]

notFin == <<ledgerVars, scmsVars, orderVars, stepVars>>

\* Distributor.add_to_inventory(car)
FinAddToInventory(car) ==
    /\ Len(fInventory) + Len(fStock) < MaxStock
    /\ fInventory' = Append(fInventory, car)
    /\ last' = [op |-> "add_to_inventory", product |-> car,
                fInventory |-> fInventory, fStock |-> fStock]
    /\ UNCHANGED <<fStock, fOrderCount, fOrder, notFin>>

\* Store.add_car(car) on the Retailer
FinAddCar(car) ==
    /\ Len(fInventory) + Len(fStock) < MaxStock
    /\ fStock' = Append(fStock, car)
    /\ last' = [op |-> "add_car", product |-> car,
                fInventory |-> fInventory, fStock |-> fStock]
    /\ UNCHANGED <<fInventory, fOrderCount, fOrder, notFin>>

\* Retailer.order_product(distributor, car, quantity): the id comes from
\* Distributor.generate_order_id, the Order is returned to the caller
FinOrderProduct(car, q) ==
    /\ fOrderCount < MaxOrders
    /\ LET o == Fin_Order_init(fOrderCount + 1, car, q, FinPricePerUnit)
           d == Fin_distribute_product(fInventory, fStock, car, q, o)
       IN  /\ fOrderCount' = fOrderCount + 1
           /\ fInventory' = d.inventory
           /\ fStock' = d.stock
           /\ fOrder' = <<d.order>>
           /\ last' = [op |-> "order_product", product |-> car,
                       quantity |-> q,
                       fInventory |-> fInventory, fStock |-> fStock]
    /\ UNCHANGED notFin

\* Order.calculate_total_price
Fin_calculate_total_price(o) == o.quantity * o.price_per_unit

\* Order.update_order_status(new_status) on the Order order_product returned
FinUpdateOrderStatus(new_status) ==
    /\ Len(fOrder) > 0
    /\ fOrder' = <<Fin_update_order_status(fOrder[1], new_status)>>
    /\ last' = [op |-> "update_order_status", new_status |-> new_status,
                status |-> fOrder[1].status]
    /\ UNCHANGED <<fInventory, fStock, fOrderCount, notFin>>

\* ------------------------------------------- final_SCMS.py ExpiryManager
\* Warehouse.inventory as the ExpiryManager reads it: the dict in insertion
\* order, a sequence of entries [id, item].  An item is an int (what
\* store_product writes) or a dict {'quantity': q} / {'quantity': q,
\* 'expiry': e} (what a caller assigns to warehouse.inventory[id]).
Dates == 1..MaxDate
IntItem(q) == [dict |-> FALSE, quantity |-> q, has_expiry |-> FALSE, expiry |-> 0]
DictItem(q) == [dict |-> TRUE, quantity |-> q, has_expiry |-> FALSE, expiry |-> 0]
DatedItem(q, e) == [dict |-> TRUE, quantity |-> q, has_expiry |-> TRUE, expiry |-> e]
Items ==
    {IntItem(q) : q \in 1..MaxQty} \cup {DictItem(q) : q \in 1..MaxQty}
        \cup {DatedItem(q, e) : q \in 1..MaxQty, e \in Dates}

ErrType == "TypeError"

\* the position of key p, 0 when p is not a key
KeyIndex(inv, p) ==
    IF \E i \in DOMAIN inv : inv[i].id = p
    THEN CHOOSE i \in DOMAIN inv : inv[i].id = p
    ELSE 0

\* inv[p] = item: in place for an existing key, appended for a new one
SetItem(inv, p, item) ==
    IF KeyIndex(inv, p) = 0
    THEN Append(inv, [id |-> p, item |-> item])
    ELSE [inv EXCEPT ![KeyIndex(inv, p)] = [id |-> p, item |-> item]]

\* the quantities held, whatever the kind of item
RECURSIVE Held(_)
Held(inv) ==
    IF inv = <<>> THEN 0 ELSE inv[1].item.quantity + Held(Tail(inv))

\* SelectSeq without a LAMBDA: the entries that are not expired dicts
RECURSIVE KeepUnexpired(_, _)
KeepUnexpired(inv, today) ==
    IF inv = <<>> THEN <<>>
    ELSE LET it == inv[1].item
         IN  IF it.dict /\ it.has_expiry /\ it.expiry < today
             THEN KeepUnexpired(Tail(inv), today)
             ELSE <<inv[1]>> \o KeepUnexpired(Tail(inv), today)

\* ExpiryManager.is_inventory_full: sum(values) when the first value is an
\* int, sum(item['quantity']) otherwise; a value of the other kind raises
\* TypeError
ExpiryManager_is_inventory_full(inv) ==
    IF inv = <<>>
    THEN [returned |-> FALSE, raised |-> "none"]
    ELSE IF \E i \in DOMAIN inv : inv[i].item.dict # inv[1].item.dict
    THEN [returned |-> FALSE, raised |-> ErrType]
    ELSE [returned |-> Held(inv) >= Capacity, raised |-> "none"]

\* remove_expired_if_full with the  if not self.is_inventory_full()  left out
Mutant_remove_expired_always(inv, today) ==
    LET kept == KeepUnexpired(inv, today)
    IN  [inventory |-> kept, raised |-> "none",
         printed |-> IF kept = inv THEN "No expired products found."
                                   ELSE "Removed expired product"]

\* ExpiryManager.remove_expired_if_full with today_date = today
ExpiryManager_remove_expired_if_full(inv, today) ==
    LET full == ExpiryManager_is_inventory_full(inv)
        kept == KeepUnexpired(inv, today)
    IN  IF full.raised # "none"
        THEN [inventory |-> inv, raised |-> full.raised, printed |-> "none"]
        ELSE IF ~full.returned
        THEN [inventory |-> inv, raised |-> "none",
              printed |-> "Inventory is not full. No expired items removed."]
        ELSE [inventory |-> kept, raised |-> "none",
              printed |-> IF kept = inv THEN "No expired products found."
                                        ELSE "Removed expired product"]

\* StorageUnit.store_product on this inventory, inside Warehouse's try:
\* sum(values) and get(...) + quantity raise TypeError on a dict item
SCMS_store_product(inv, p, q) ==
    IF q <= 0
    THEN [inventory |-> inv, exc |-> ErrQuantity]
    ELSE IF \E i \in DOMAIN inv : inv[i].item.dict
    THEN [inventory |-> inv, exc |-> ErrType]
    ELSE IF Held(inv) + q > Capacity
    THEN [inventory |-> inv, exc |-> ErrSpace]
    ELSE LET i == KeyIndex(inv, p)
             old == IF i = 0 THEN 0 ELSE inv[i].item.quantity
         IN  [inventory |-> SetItem(inv, p, IntItem(old + q)), exc |-> "none"]

notExpiry == <<ledgerVars, scmsVars, orderVars, finVars, fRun, threads,
               sStore2, orders2, unitVars>>

\* warehouse.inventory[p] = item, by the code that owns the warehouse
ExpiryAssign(p, item) ==
    /\ Held(SetItem(xInventory, p, item)) <= MaxHeld
    /\ xInventory' = SetItem(xInventory, p, item)
    /\ last' = [op |-> "assign", product |-> p, xInventory |-> xInventory]
    /\ UNCHANGED notExpiry

\* Warehouse.store_product(product_id, quantity)
ExpiryStore(p, q) ==
    LET r == SCMS_store_product(xInventory, p, q)
    IN  /\ xInventory' = r.inventory
        /\ last' = [op |-> "store_product", product |-> p, quantity |-> q,
                    exc |-> r.exc, xInventory |-> xInventory]
        /\ UNCHANGED notExpiry

\* ExpiryManager(warehouse, today).remove_expired_if_full()
ExpirySweep(today) ==
    LET r == ExpiryManager_remove_expired_if_full(xInventory, today)
    IN  /\ xInventory' = r.inventory
        /\ last' = [op |-> "remove_expired_if_full", today |-> today,
                    raised |-> r.raised, printed |-> r.printed,
                    returned |-> None, xInventory |-> xInventory]
        /\ UNCHANGED notExpiry

\* product.py ExpiryManager.is_inventory_full:
\* sum([item['quantity'] for item in ...values()]) >= capacity; an int item
\* is not subscriptable
Product_is_inventory_full(inv) ==
    IF \E i \in DOMAIN inv : ~inv[i].item.dict
    THEN [returned |-> FALSE, raised |-> ErrType]
    ELSE [returned |-> Held(inv) >= Capacity, raised |-> "none"]

\* product.py ExpiryManager.remove_expired_if_full (the second definition,
\* which replaces the first).  __init__ sets no today_date: the loop's first
\* pass raises KeyError at item['expiry'] on an item without the key, and
\* AttributeError at self.today_date otherwise.
Product_remove_expired_if_full(inv) ==
    LET full == Product_is_inventory_full(inv)
    IN  IF full.raised # "none"
        THEN [inventory |-> inv, raised |-> full.raised, printed |-> "none"]
        ELSE IF ~full.returned
        THEN [inventory |-> inv, raised |-> "none",
              printed |-> "Inventory is not full. No expired items removed."]
        ELSE IF inv = <<>>
        THEN [inventory |-> inv, raised |-> "none",
              printed |-> "No expired products found."]
        ELSE [inventory |-> inv,
              raised |-> IF inv[1].item.has_expiry
                         THEN "AttributeError: today_date"
                         ELSE "KeyError: expiry",
              printed |-> "none"]

\* product.py ExpiryManager(warehouse).remove_expired_if_full()
ProductExpirySweep ==
    LET r == Product_remove_expired_if_full(xInventory)
    IN  /\ xInventory' = r.inventory
        /\ last' = [op |-> "product_remove_expired_if_full",
                    raised |-> r.raised, printed |-> r.printed,
                    returned |-> None, xInventory |-> xInventory]
        /\ UNCHANGED notExpiry

\* ---- Distributor.distribute_product statement by statement, two callers
Threads == {1, 2}
ErrKey == "KeyError"

\* a caller at the top of distribute_product(product, quantity, retailer);
\* from names the ledger it is called on, first the ledger it touched first
Thread_init(p, q, from) ==
    [pc |-> "check", product |-> p, quantity |-> q, from |-> from,
     first |-> "none", raised |-> "none"]

\* no caller
NoThreads == [t \in Threads |-> [Thread_init("p1", 0, "d") EXCEPT !.pc = "done"]]

\* distribute_product that waits for stock instead of giving up
Mutant_distribute_step_waits(th, src, dst) ==
    LET p == th.product
        q == th.quantity
    IN  CASE th.pc = "check" ->
                 [th  |-> [th EXCEPT !.pc = IF p \in DOMAIN src /\ q <= src[p]
                                            THEN "take" ELSE "check",
                                     !.first = th.from],
                  src |-> src, dst |-> dst]
          [] th.pc = "take" ->
                 IF p \notin DOMAIN src
                 THEN [th  |-> [th EXCEPT !.pc = "done", !.raised = ErrKey],
                       src |-> src, dst |-> dst]
                 ELSE [th  |-> [th EXCEPT !.pc = "receive"],
                       src |-> Put(src, p, src[p] - q), dst |-> dst]
          [] th.pc = "receive" ->
                 [th  |-> [th EXCEPT !.pc = "del"],
                  src |-> src,
                  dst |-> Distributor_receive_product(dst, p, q).inventory]
          [] OTHER ->
                 IF p \notin DOMAIN src
                 THEN [th  |-> [th EXCEPT !.pc = "done", !.raised = ErrKey],
                       src |-> src, dst |-> dst]
                 ELSE [th  |-> [th EXCEPT !.pc = "done"],
                       src |-> IF src[p] = 0 THEN Del(src, p) ELSE src,
                       dst |-> dst]

\* one statement of Distributor.distribute_product run by caller th on the
\* ledger src with the receiving party's ledger dst:
\*   check    the  if ... in self.inventory and ... <= self.inventory[...]
\*   take     self.inventory[product_id] -= product_quantity
\*   receive  retailer.receive_product(product_id, product_quantity)
\*   del      if self.inventory[product_id] == 0: del ...
\* a missing key raises KeyError and ends the call
Distribute_step(th, src, dst) ==
    LET p == th.product
        q == th.quantity
    IN  CASE th.pc = "check" ->
                 [th  |-> [th EXCEPT !.pc = IF p \in DOMAIN src /\ q <= src[p]
                                            THEN "take" ELSE "done",
                                     !.first = th.from],
                  src |-> src, dst |-> dst]
          [] th.pc = "take" ->
                 IF p \notin DOMAIN src
                 THEN [th  |-> [th EXCEPT !.pc = "done", !.raised = ErrKey],
                       src |-> src, dst |-> dst]
                 ELSE [th  |-> [th EXCEPT !.pc = "receive"],
                       src |-> Put(src, p, src[p] - q), dst |-> dst]
          [] th.pc = "receive" ->
                 [th  |-> [th EXCEPT !.pc = "del"],
                  src |-> src,
                  dst |-> Distributor_receive_product(dst, p, q).inventory]
          [] OTHER ->
                 IF p \notin DOMAIN src
                 THEN [th  |-> [th EXCEPT !.pc = "done", !.raised = ErrKey],
                       src |-> src, dst |-> dst]
                 ELSE [th  |-> [th EXCEPT !.pc = "done"],
                       src |-> IF src[p] = 0 THEN Del(src, p) ELSE src,
                       dst |-> dst]

\* caller t runs its next statement
ThreadStep(t) ==
    /\ threads[t].pc # "done"
    /\ LET th == threads[t]
           r  == IF th.from = "d"
                 THEN Distribute_step(th, dInventory, rInventory)
                 ELSE Distribute_step(th, rInventory, dInventory)
       IN  /\ threads' = [threads EXCEPT ![t] = r.th]
           /\ dInventory' = IF th.from = "d" THEN r.src ELSE r.dst
           /\ rInventory' = IF th.from = "d" THEN r.dst ELSE r.src
    /\ UNCHANGED <<inventory, scmsVars, orderVars, finVars, fRun,
                   xInventory, sStore2, orders2, unitVars, last>>

\* ---- Retailer.order_product statement by statement
\* no call in progress
FinIdle == [pc |-> "idle", car |-> "p1", quantity |-> 0, left |-> 0]

notFinSteps == <<ledgerVars, scmsVars, orderVars, threads, xInventory,
                 sStore2, orders2, unitVars>>

\* order_id = distributor.generate_order_id(); order = Order(...);
\* order.place_order(): the Order exists, Pending
FinBegin(car, q) ==
    /\ fRun.pc = "idle"
    /\ fOrderCount < MaxOrders
    /\ fOrderCount' = fOrderCount + 1
    /\ fOrder' = <<Fin_Order_init(fOrderCount + 1, car, q, FinPricePerUnit)>>
    /\ fRun' = [pc |-> "check", car |-> car, quantity |-> q, left |-> 0]
    /\ last' = [op |-> "order_product", product |-> car, quantity |-> q,
                fInventory |-> fInventory, fStock |-> fStock]
    /\ UNCHANGED <<fInventory, fStock, notFinSteps>>

\* distribute_product: available_quantity = count(car); the test; the else
\* branch sets Cancelled and the call returns
FinCheck ==
    /\ fRun.pc = "check"
    /\ IF Count(fInventory, fRun.car) >= fRun.quantity
       THEN /\ fRun' = [fRun EXCEPT !.pc = "loop",
                                    !.left = IF fRun.quantity > 0
                                             THEN fRun.quantity ELSE 0]
            /\ UNCHANGED fOrder
       ELSE /\ fOrder' = <<Fin_update_order_status(fOrder[1], "Cancelled")>>
            /\ fRun' = FinIdle
    /\ UNCHANGED <<fInventory, fStock, fOrderCount, last, notFinSteps>>

\* one pass of  for _ in range(quantity): remove(car); receive_product(car)
FinMove ==
    /\ fRun.pc = "loop"
    /\ fRun.left > 0
    /\ LET r == FinMoveLoop(fInventory, fStock, fRun.car, 1)
       IN  /\ fInventory' = r.inventory
           /\ fStock' = r.stock
           /\ fRun' = IF r.raised = "none"
                      THEN [fRun EXCEPT !.left = fRun.left - 1]
                      ELSE FinIdle
    /\ UNCHANGED <<fOrderCount, fOrder, last, notFinSteps>>

\* after the loop: order.update_order_status("Shipped"); the call returns
FinShip ==
    /\ fRun.pc = "loop"
    /\ fRun.left = 0
    /\ fOrder' = <<Fin_update_order_status(fOrder[1], "Shipped")>>
    /\ fRun' = FinIdle
    /\ UNCHANGED <<fInventory, fStock, fOrderCount, last, notFinSteps>>

\* ------------------------------------------------------------ Shipment.py
ShipmentStatuses == {"Pending", "In Transit", "Delivered"}

\* Shipment.__init__: products is a dict, kept as the list of its
\* (product_id, quantity) items in insertion order; destination tells whether
\* destination_warehouse is a Warehouse (TRUE) or None (FALSE); stored is
\* history: deliver() has run its storing loop
Shipment_init(products, destination, status) ==
    [products |-> products, destination |-> destination, status |-> status,
     stored |-> FALSE]

\* the products dicts a Shipment is built with: up to two distinct ids
Item(p, q) == [product_id |-> p, quantity |-> q]
ShipmentProducts ==
    {<<>>}
    \cup {<<Item(p, q)>> : p \in Products, q \in 1..MaxQty}
    \cup {ps \in {<<Item(p1, q1), Item(p2, q2)>> :
                       p1 \in Products, p2 \in Products,
                       q1 \in 1..MaxQty, q2 \in 1..MaxQty} :
              ps[1].product_id # ps[2].product_id}

\* for product_id, quantity in self.products.items():
\*     self.destination_warehouse.store_product(product_id, quantity)
RECURSIVE StoreAll(_, _)
StoreAll(inv, products) ==
    IF products = <<>> THEN inv
    ELSE LET r == Warehouse_wrap(
                      StorageUnit_store_product(inv, Head(products).product_id,
                                                Head(products).quantity))
         IN  StoreAll(r.inventory, Tail(products))

\* Shipment.deliver: the shipment and the warehouse inventory afterwards,
\* and what was printed
Shipment_deliver(sh, inv) ==
    IF sh.status # "Delivered"
    THEN IF sh.destination
         THEN [shipment |-> [sh EXCEPT !.status = "Delivered",
                                       !.stored = TRUE],
               inventory |-> StoreAll(inv, sh.products),
               printed |-> "delivered"]
         ELSE [shipment |-> sh, inventory |-> inv, printed |-> "not found"]
    ELSE [shipment |-> sh, inventory |-> inv, printed |-> "already delivered"]

\* Shipment.update_status
Shipment_update_status(sh, new_status) == [sh EXCEPT !.status = new_status]

notShipment == <<dInventory, rInventory, scmsVars, orderVars, finVars, fRun,
                 threads, xInventory, sStore2, orders2, transport, processor,
                 manufacturer>>

\* shipment.deliver()
ShipmentDeliver ==
    LET r == Shipment_deliver(shipment, inventory)
    IN  /\ shipment' = r.shipment
        /\ inventory' = r.inventory
        /\ last' = [op |-> "deliver", status |-> shipment.status,
                    stored |-> shipment.stored, inventory |-> inventory,
                    printed |-> r.printed]
        /\ UNCHANGED notShipment

\* shipment.update_status(new_status)
ShipmentUpdateStatus(new_status) ==
    /\ shipment' = Shipment_update_status(shipment, new_status)
    /\ last' = [op |-> "shipment_update_status", status |-> shipment.status,
                stored |-> shipment.stored, inventory |-> inventory,
                printed |-> "updated"]
    /\ UNCHANGED <<inventory, notShipment>>

\* ------------------------------------------------------ Transportation.py
\* Transportation.__init__
Transportation_init == [cars |-> EmptyDict, status |-> "Pending"]

\* Transportation.add_car: car_id is brand and model together; one entry
\* per car_id, its quantity added up
Transportation_add_car(tr, car_id, quantity) ==
    [tr EXCEPT !.cars = Put(tr.cars, car_id, Get(tr.cars, car_id, 0) + quantity)]

\* Transportation.start_transport
Transportation_start_transport(tr) ==
    IF tr.cars = EmptyDict
    THEN [transport |-> tr, printed |-> "No cars to transport."]
    ELSE [transport |-> [tr EXCEPT !.status = "In Transit"],
          printed |-> "started"]

\* Transportation.complete_transport
Transportation_complete_transport(tr) ==
    IF tr.status # "In Transit"
    THEN [transport |-> tr, printed |-> "hasn't started or is already completed"]
    ELSE [transport |-> [tr EXCEPT !.status = "Delivered"],
          printed |-> "delivered"]

notUnit == <<ledgerVars, scmsVars, orderVars, finVars, fRun, threads,
             xInventory, sStore2, orders2>>

\* transport.add_car(model, brand, quantity, car_type); the model stops
\* loading beyond MaxHeld cars
TransportAddCar(car_id, quantity) ==
    LET tr == Transportation_add_car(transport, car_id, quantity)
    IN  /\ Bounded(tr.cars)
        /\ transport' = tr
        /\ last' = [op |-> "add_car", status |-> transport.status,
                    cars |-> transport.cars, printed |-> "added"]
        /\ UNCHANGED <<notUnit, shipment, processor, manufacturer>>

\* transport.start_transport()
TransportStart ==
    LET r == Transportation_start_transport(transport)
    IN  /\ transport' = r.transport
        /\ last' = [op |-> "start_transport", status |-> transport.status,
                    cars |-> transport.cars, printed |-> r.printed]
        /\ UNCHANGED <<notUnit, shipment, processor, manufacturer>>

\* transport.complete_transport()
TransportComplete ==
    LET r == Transportation_complete_transport(transport)
    IN  /\ transport' = r.transport
        /\ last' = [op |-> "complete_transport", status |-> transport.status,
                    cars |-> transport.cars, printed |-> r.printed]
        /\ UNCHANGED <<notUnit, shipment, processor, manufacturer>>

\* ------------------------------------------- final_SCMS.py PaymentProcessor
\* PaymentProcessor.__new__, first call
PaymentProcessor_new == [transactions |-> EmptyDict, total_balance |-> 0]

\* process that records the payment whether or not the id is known
Mutant_process_no_duplicate_check(pp, order_id, amount) ==
    [processor |-> [transactions |-> Put(pp.transactions, order_id, amount),
                    total_balance |-> pp.total_balance + amount],
     returned |-> TRUE]

\* PaymentProcessor.process: the processor afterwards and the value returned
PaymentProcessor_process(pp, order_id, amount) ==
    IF order_id \in DOMAIN pp.transactions
    THEN [processor |-> pp, returned |-> FALSE]
    ELSE [processor |-> [transactions |-> Put(pp.transactions, order_id, amount),
                         total_balance |-> pp.total_balance + amount],
          returned |-> TRUE]

\* Order.process_payment of an Order with this id, product and quantity
Order_process_payment(pp, o) ==
    PaymentProcessor_process(pp, o.order_id, o.quantity * o.price_per_unit)

\* order.process_payment(), the order being any Order of any retailer
OrderProcessPayment(order_id, p, q) ==
    LET o == Order_init(order_id, p, q, Price(p))
        r == Order_process_payment(processor, o)
    IN  /\ processor' = r.processor
        /\ last' = [op |-> "process_payment", order_id |-> order_id,
                    amount |-> o.quantity * o.price_per_unit,
                    returned |-> r.returned, processor |-> processor]
        /\ UNCHANGED <<notUnit, shipment, transport, manufacturer>>

\* ----------------------------------------------- final_SCMS.py Manufacturer
\* Manufacturer.__init__
Manufacturer_init(production_capacity) ==
    [production_capacity |-> production_capacity, products_produced |-> <<>>]

ErrPrice == "Price must be positive"
ErrNegative == "Quantity cannot be negative"

\* Product.__init__: the exception it raises, "none" if it builds the Product
Product_init_raises(price, quantity) ==
    IF price <= 0 THEN ErrPrice
    ELSE IF quantity < 0 THEN ErrNegative
    ELSE "none"

\* manufacture_product whose capacity test is > instead of >=
Mutant_manufacture_product_off_by_one(mf, name, price, quantity) ==
    IF Len(mf.products_produced) > mf.production_capacity
    THEN [manufacturer |-> mf, returned |-> None, raised |-> "none"]
    ELSE [manufacturer |->
              [mf EXCEPT !.products_produced =
                  Append(@, [product_id |-> <<name, Len(@) + 1>>,
                             name |-> name, price |-> price,
                             quantity |-> quantity])],
          returned |-> "product", raised |-> "none"]

\* Manufacturer.manufacture_product: the manufacturer afterwards, whether a
\* Product or None was returned, and the exception raised; product_id is the
\* name's first letters with the product's number
Manufacturer_manufacture_product(mf, name, price, quantity) ==
    IF Len(mf.products_produced) >= mf.production_capacity
    THEN [manufacturer |-> mf, returned |-> None, raised |-> "none"]
    ELSE IF Product_init_raises(price, quantity) # "none"
    THEN [manufacturer |-> mf, returned |-> None,
          raised |-> Product_init_raises(price, quantity)]
    ELSE [manufacturer |->
              [mf EXCEPT !.products_produced =
                  Append(@, [product_id |-> <<name, Len(@) + 1>>,
                             name |-> name, price |-> price,
                             quantity |-> quantity])],
          returned |-> "product", raised |-> "none"]

\* manufacturer.manufacture_product(name, category, price, quantity)
ManufactureProduct(name, price, quantity) ==
    LET r == Manufacturer_manufacture_product(manufacturer, name, price,
                                              quantity)
    IN  /\ manufacturer' = r.manufacturer
        /\ last' = [op |-> "manufacture_product", name |-> name,
                    price |-> price, quantity |-> quantity,
                    returned |-> r.returned, raised |-> r.raised,
                    products_produced |-> manufacturer.products_produced]
        /\ UNCHANGED <<notUnit, shipment, transport, processor>>

\* the objects no action of a specification touches
InitUnits ==
    /\ shipment = Shipment_init(<<>>, TRUE, "Pending")
    /\ transport = Transportation_init
    /\ processor = PaymentProcessor_new
    /\ manufacturer = Manufacturer_init(Capacity)

InitLedger ==
    /\ inventory = EmptyDict
    /\ dInventory = EmptyDict
    /\ rInventory = EmptyDict

InitSCMS ==
    /\ sInventory = <<>>
    /\ sStore = <<>>
    /\ orders = <<>>

InitFin ==
    /\ fInventory = <<>>
    /\ fStock = <<>>
    /\ fOrderCount = 0
    /\ fOrder = <<>>
    /\ fRun = FinIdle
    /\ threads = NoThreads
    /\ xInventory = <<>>
    /\ sStore2 = <<>>
    /\ orders2 = <<>>

InitLast ==
    last = [op |-> "init", product |-> "p1", quantity |-> 0,
            exc |-> "none", raised |-> "none", printed |-> "none",
            inventory |-> EmptyDict, dInventory |-> EmptyDict,
            rInventory |-> EmptyDict]

\* every object freshly constructed; no Order built yet (order = <<>>)
Init ==
    /\ InitLedger
    /\ InitSCMS
    /\ InitFin
    /\ InitUnits
    /\ order = <<>>
    /\ seen = {}
    /\ InitLast

\* warehouse.py Warehouse and the Distributor.py Distributor fed from it
Next ==
    \E p \in Products, q \in Quantities :
        \/ WarehouseStore(p, q)
        \/ WarehouseRetrieve(p, q)
        \/ DistributorReceive(p, q)
        \/ DistributorReceiveFromWarehouse(p, q)

Spec == Init /\ [][Next]_vars

\* the Distributor.py Distributor and the party it distributes to
NextDistribute ==
    \E p \in Products, q \in Quantities :
        \/ DistributorReceive(p, q)
        \/ DistributorDistribute(p, q)

SpecDistribute == Init /\ [][NextDistribute]_vars

\* the three ledgers side by side; the model stops once they hold more than
\* MaxHeld units together
HeldTogether == Sum(inventory) + Sum(dInventory) + Sum(rInventory) <= MaxHeld

NextEntries ==
    \E p \in Products, q \in Quantities :
        \/ WarehouseStore(p, q) /\ HeldTogether'
        \/ WarehouseRetrieve(p, q) /\ HeldTogether'
        \/ DistributorReceive(p, q) /\ HeldTogether'
        \/ DistributorDistribute(p, q) /\ HeldTogether'
        \/ DistributorReceiveFromWarehouse(p, q) /\ HeldTogether'

SpecEntries == Init /\ [][NextEntries]_vars

\* final_SCMS.py: a Distributor, a Retailer and the orders it places
NextFulfil ==
    \E p \in Products, q \in Quantities :
        \/ SCMSAddToInventory(p)
        \/ SCMSAddProduct(p)
        \/ RetailerPlaceOrder(p, q)

SpecFulfil == Init /\ [][NextFulfil]_vars

\* final_SCMS.py: a Distributor and two Retailers placing orders with it
NextRetailers ==
    \E p \in Products, q \in Quantities :
        \/ SCMSAddToInventory(p)
        \/ RetailerPlaceOrder(p, q)
        \/ Retailer2PlaceOrder(p, q)

SpecRetailers == Init /\ [][NextRetailers]_vars

\* final_SCMS.py: an Order built by  Order(order_id, product, quantity,
\* price_per_unit)  and the status updates made on it
InitOrder ==
    /\ InitLedger
    /\ InitSCMS
    /\ InitFin
    /\ InitUnits
    /\ order \in {Order_init(1, p, q, Price(p)) :
                      p \in Products, q \in Quantities}
    /\ seen = {"Pending"}
    /\ InitLast

NextOrder == \E s \in Statuses : OrderUpdateStatus(s)

SpecOrder == InitOrder /\ [][NextOrder]_vars

\* FinancialBase.py: a Distributor, a Retailer and the orders it places
NextFin ==
    \E car \in Products, q \in Quantities :
        \/ FinAddToInventory(car)
        \/ FinAddCar(car)
        \/ FinOrderProduct(car, q)
        \/ \E s \in Statuses : FinUpdateOrderStatus(s)

SpecFin == Init /\ [][NextFin]_vars

\* FinancialBase.py: the same Distributor and Retailer, order_product taken
\* statement by statement; the other calls wait for it to return
NextFinSteps ==
    \/ \E car \in Products :
           \/ FinAddToInventory(car) /\ fRun.pc = "idle"
           \/ FinAddCar(car) /\ fRun.pc = "idle"
    \/ \E car \in Products, q \in Quantities : FinBegin(car, q)
    \/ FinCheck
    \/ FinMove
    \/ FinShip

SpecFinSteps == Init /\ [][NextFinSteps]_vars

\* final_SCMS.py: a Warehouse and the ExpiryManager built on it
NextExpiry ==
    \/ \E p \in Products, item \in Items : ExpiryAssign(p, item)
    \/ \E p \in Products, q \in Quantities : ExpiryStore(p, q)
    \/ \E today \in Dates : ExpirySweep(today)
    \/ ProductExpirySweep

SpecExpiry == Init /\ [][NextExpiry]_vars

\* what a Distributor may hold when two callers arrive
Stocks ==
    {EmptyDict, [x \in {"p1"} |-> 1],
     [x \in Products |-> IF x = "p1" THEN 1 ELSE MaxStock]}

\* Distributor.py: two callers of distribute_product on the same
\* Distributor, for the same receiving party, their statements interleaved
InitRace ==
    /\ inventory = EmptyDict
    /\ dInventory \in Stocks
    /\ rInventory = EmptyDict
    /\ InitSCMS
    /\ fInventory = <<>> /\ fStock = <<>> /\ fOrderCount = 0
    /\ fOrder = <<>> /\ fRun = FinIdle /\ xInventory = <<>>
    /\ sStore2 = <<>> /\ orders2 = <<>>
    /\ InitUnits
    /\ order = <<>>
    /\ seen = {}
    /\ threads \in [Threads -> {Thread_init(p, q, "d") :
                                   p \in Products, q \in Quantities}]
    /\ last = [op |-> "init", dInventory |-> dInventory,
               rInventory |-> rInventory]

NextRace == \E t \in Threads : ThreadStep(t)

SpecRace == InitRace /\ [][NextRace]_vars

\* Distributor.py: two Distributors, each distributing to the other: caller
\* 1 on the first (d), caller 2 on the second (r).  Every statement of a
\* caller is sooner or later run (a thread that can run is scheduled).
InitOpposite ==
    /\ inventory = EmptyDict
    /\ dInventory \in Stocks
    /\ rInventory \in Stocks
    /\ InitSCMS
    /\ fInventory = <<>> /\ fStock = <<>> /\ fOrderCount = 0
    /\ fOrder = <<>> /\ fRun = FinIdle /\ xInventory = <<>>
    /\ sStore2 = <<>> /\ orders2 = <<>>
    /\ InitUnits
    /\ order = <<>>
    /\ seen = {}
    /\ threads \in {[t \in Threads |-> IF t = 1 THEN a ELSE b] :
                        a \in {Thread_init(p, q, "d") :
                                   p \in Products, q \in Quantities},
                        b \in {Thread_init(p, q, "r") :
                                   p \in Products, q \in Quantities}}
    /\ last = [op |-> "init", dInventory |-> dInventory,
               rInventory |-> rInventory]

NextOpposite == \E t \in Threads : ThreadStep(t)

SpecOpposite ==
    /\ InitOpposite
    /\ [][NextOpposite]_vars
    /\ \A t \in Threads : WF_vars(ThreadStep(t))

\* a Shipment of any products, bound for a fresh Warehouse or for none
InitShipment ==
    /\ InitLedger
    /\ InitSCMS
    /\ InitFin
    /\ order = <<>>
    /\ seen = {}
    /\ shipment \in {Shipment_init(ps, d, st) :
                         ps \in ShipmentProducts, d \in BOOLEAN,
                         st \in ShipmentStatuses}
    /\ transport = Transportation_init
    /\ processor = PaymentProcessor_new
    /\ manufacturer = Manufacturer_init(Capacity)
    /\ last = [op |-> "init", status |-> shipment.status, stored |-> FALSE,
               inventory |-> inventory, printed |-> "none"]

NextShipment ==
    \/ ShipmentDeliver
    \/ \E s \in ShipmentStatuses : ShipmentUpdateStatus(s)

SpecShipment == InitShipment /\ [][NextShipment]_vars

\* a fresh Transportation
InitTransport ==
    /\ InitLedger
    /\ InitSCMS
    /\ InitFin
    /\ InitUnits
    /\ order = <<>>
    /\ seen = {}
    /\ last = [op |-> "init", status |-> "Pending", cars |-> EmptyDict,
               printed |-> "none"]

NextTransport ==
    \/ \E car_id \in Products, q \in 1..MaxQty : TransportAddCar(car_id, q)
    \/ TransportStart
    \/ TransportComplete

SpecTransport == InitTransport /\ [][NextTransport]_vars

\* the PaymentProcessor before its first payment
InitPayments ==
    /\ InitLedger
    /\ InitSCMS
    /\ InitFin
    /\ InitUnits
    /\ order = <<>>
    /\ seen = {}
    /\ last = [op |-> "init", order_id |-> 0, amount |-> 0,
               returned |-> FALSE, processor |-> PaymentProcessor_new]

NextPayments ==
    \E order_id \in 1..MaxOrders, p \in Products, q \in Quantities :
        OrderProcessPayment(order_id, p, q)

SpecPayments == InitPayments /\ [][NextPayments]_vars

\* a Manufacturer of any capacity 0..Capacity that has produced nothing
InitManufacturer ==
    /\ InitLedger
    /\ InitSCMS
    /\ InitFin
    /\ order = <<>>
    /\ seen = {}
    /\ shipment = Shipment_init(<<>>, TRUE, "Pending")
    /\ transport = Transportation_init
    /\ processor = PaymentProcessor_new
    /\ manufacturer \in {Manufacturer_init(c) : c \in 0..Capacity}
    /\ last = [op |-> "init", name |-> "p1", price |-> 0, quantity |-> 0,
               returned |-> None, raised |-> "none",
               products_produced |-> <<>>]

NextManufacturer ==
    \E name \in Products, q \in Quantities :
        \E price \in {0, Price(name)} : ManufactureProduct(name, price, q)

SpecManufacturer == InitManufacturer /\ [][NextManufacturer]_vars

\* ================================================================ claims
\* ---- the capacity-bounded ledger (Spec)

\* C1: after any sequence of store_product and retrieve_product calls, with
\* any integer quantities, the sum of the held quantities never exceeds the
\* capacity.
C1_TotalWithinCapacity == Sum(inventory) <= Capacity

\* C2: a cross-ledger transfer call keeps the total held by the source plus
\* the total held by the destination, whether it succeeds or fails (here
\* Distributor.receive_from_warehouse: source warehouse, destination
\* distributor).
C2_TransferConserves ==
    last.op = "receive_from_warehouse" =>
        Sum(inventory) + Sum(dInventory)
            = Sum(last.inventory) + Sum(last.dInventory)

\* C7: store_product with current total + quantity > capacity fails with the
\* capacity exception and leaves the mapping unchanged.
C7_StoreOverCapacity ==
    (last.op = "store_product"
        /\ Sum(last.inventory) + last.quantity > Capacity) =>
        (last.exc = ErrSpace /\ inventory = last.inventory)

\* C8: retrieve_product with quantity <= 0 fails and leaves the mapping
\* unchanged, the product present or absent.  (Any exception counts as the
\* failure here: retrieve_product has no quantity error of its own.)
C8_RetrieveNonPositive ==
    (last.op = "retrieve_product" /\ last.quantity <= 0) =>
        (last.exc # "none" /\ inventory = last.inventory)

\* C9: store_product with quantity <= 0 fails with the quantity error and
\* leaves the mapping unchanged; Distributor.receive_product with a
\* non-positive quantity refuses it and leaves its mapping unchanged.
C9_StoreNonPositive ==
    /\ (last.op = "store_product" /\ last.quantity <= 0) =>
           (last.exc = ErrQuantity /\ inventory = last.inventory)
    /\ (last.op = "receive_product" /\ last.quantity <= 0) =>
           (last.printed = MsgPositive /\ dInventory = last.dInventory)

C9_Witness ==
    /\ last.op = "store_product"
    /\ last.quantity < 0
    /\ last.exc = ErrQuantity
    /\ DOMAIN inventory # {}
    /\ DOMAIN dInventory # {}

\* C10: retrieve_product fails with "Product not found." when the product id
\* is not a key, and with "Not enough stock." when the quantity exceeds the
\* held amount; in both cases every entry of the mapping is unchanged.
C10_RetrieveMissingOrShort ==
    last.op = "retrieve_product" =>
        /\ last.product \notin DOMAIN last.inventory =>
               (last.exc = ErrNotFound /\ inventory = last.inventory)
        /\ (last.product \in DOMAIN last.inventory
               /\ last.quantity > last.inventory[last.product]) =>
               (last.exc = ErrStock /\ inventory = last.inventory)

C10_Witness ==
    /\ last.op = "retrieve_product"
    /\ last.product \in DOMAIN last.inventory
    /\ last.quantity > last.inventory[last.product]
    /\ last.exc = ErrStock

\* ---- the three dict ledgers together (SpecEntries)
Positive(inv) == \A p \in DOMAIN inv : inv[p] > 0

\* C11: after any sequence of store_product / retrieve_product calls on the
\* warehouse and of receive_product / distribute_product calls on a
\* Distributor, with any integer quantities, every product id present in an
\* inventory mapping has a quantity strictly greater than 0.
C11_EntriesPositive ==
    Positive(inventory) /\ Positive(dInventory) /\ Positive(rInventory)

\* an entry that reached 0 is gone, on the warehouse and on the distributor
C11_Witness ==
    /\ last.op \in {"retrieve_product", "distribute_product"}
    /\ last.quantity > 0
    /\ LET before == IF last.op = "retrieve_product"
                     THEN last.inventory ELSE last.dInventory
           after  == IF last.op = "retrieve_product"
                     THEN inventory ELSE dInventory
       IN  /\ last.product \in DOMAIN before
           /\ before[last.product] = last.quantity
           /\ last.product \notin DOMAIN after
           /\ DOMAIN after # {}

\* p's entry is q lower in after than in before, gone iff nothing is left
\* of it, and every other entry is as it was
Lowered(before, after, p, q) ==
    /\ p \in DOMAIN before
    /\ (p \in DOMAIN after) <=> (before[p] - q # 0)
    /\ p \in DOMAIN after => after[p] = before[p] - q
    /\ \A x \in Products \ {p} :
           /\ (x \in DOMAIN after) <=> (x \in DOMAIN before)
           /\ x \in DOMAIN before => after[x] = before[x]

\* C12: a successful retrieve_product(p, q) lowers p's held quantity by
\* exactly q, removes the entry if and only if the result is 0, and leaves
\* every other product's entry unchanged; so does the removal made by
\* distribute_product on the distributor and by receive_from_warehouse on
\* the warehouse.
C12_RetrieveDecrements ==
    /\ (last.op = "retrieve_product" /\ last.exc = "none") =>
           Lowered(last.inventory, inventory, last.product, last.quantity)
    /\ (last.op = "distribute_product"
           /\ last.printed \in {"received", MsgPositive}) =>
           Lowered(last.dInventory, dInventory, last.product, last.quantity)
    /\ (last.op = "receive_from_warehouse"
           /\ last.printed \in {"received", MsgPositive}) =>
           Lowered(last.inventory, inventory, last.product, last.quantity)

C12_Witness ==
    /\ last.op = "retrieve_product"
    /\ last.exc = "none"
    /\ last.quantity = 1
    /\ DOMAIN last.inventory = Products
    /\ last.inventory[last.product] = 2
    /\ inventory[last.product] = 1

\* ---- the warehouse ledger (Spec)
\* C13: in every ledger state, when store_product(p, q) succeeds, a
\* following retrieve_product(p, q) succeeds and returns the ledger to
\* exactly the mapping it had before the store (p absent again if it was
\* absent before).
C13_RoundTrip ==
    (last.op = "store_product" /\ last.exc = "none") =>
        LET r == StorageUnit_retrieve_product(inventory, last.product,
                                              last.quantity)
        IN  r.exc = "none" /\ r.inventory = last.inventory

C13_Witness ==
    /\ last.op = "store_product"
    /\ last.exc = "none"
    /\ last.quantity = 2
    /\ last.product \notin DOMAIN last.inventory
    /\ DOMAIN last.inventory # {}
    /\ inventory[last.product] = 2

\* C22: a store_product or retrieve_product call on the Warehouse that
\* fails (capacity exceeded, product absent, insufficient stock,
\* non-positive quantity) gives its caller a failure outcome, distinguishable
\* from that of a successful call: the exception reaches the caller (both
\* methods return None whatever happened).
C22_ErrorsSurfaced ==
    (last.op \in {"store_product", "retrieve_product"}
        /\ last.exc # "none") =>
        last.raised # "none"

\* ---- Distributor.distribute_product (SpecDistribute)

\* C6: when the removal from the source went through and the destination
\* then refused the quantity, the source holds what it held before the call.
C6_RolledBack ==
    (last.op = "distribute_product" /\ last.printed = MsgPositive) =>
        dInventory = last.dInventory

\* ---- the Order status (SpecOrder)
Table ==
    {<<"Pending", "Processing">>, <<"Pending", "Cancelled">>,
     <<"Processing", "Shipped">>, <<"Processing", "Cancelled">>,
     <<"Shipped", "Delivered">>}

FinLeft(c) == Count(last.fInventory, c) - Count(fInventory, c)
FinArrived(c) == Count(fStock, c) - Count(last.fStock, c)

\* C4: when a fulfilment call returns, either exactly the ordered quantity
\* of the ordered product has left the source and arrived in the
\* destination and the order is Shipped, or nothing has moved and the order
\* is Cancelled.
C4_NoPartialFulfilment ==
    last.op = "order_product" =>
        \/ /\ fOrder[1].status = "Shipped"
           /\ \A c \in Products :
                 LET n == IF c = fOrder[1].product
                          THEN fOrder[1].quantity ELSE 0
                 IN  FinLeft(c) = n /\ FinArrived(c) = n
        \/ /\ fOrder[1].status = "Cancelled"
           /\ fInventory = last.fInventory
           /\ fStock = last.fStock

\* C16: in every reachable state the order's status is one of Pending,
\* Processing, Shipped, Delivered, Cancelled; a status-update call with any
\* other value is rejected and leaves the status unchanged (here the Order
\* of FinancialBase.py).
C16_StatusEnumerated ==
    Len(fOrder) > 0 =>
        /\ fOrder[1].status \in ValidStatuses
        /\ (last.op = "update_order_status"
               /\ last.new_status \notin ValidStatuses) =>
               fOrder[1].status = last.status

\* ---- order_product statement by statement (SpecFinSteps)
\* C17: at every step of a fulfilment, order status Shipped implies that the
\* full ordered quantity has already been removed from the source and added
\* to the destination.
C17_ShippedAfterMove ==
    (last.op = "order_product" /\ fOrder[1].status = "Shipped") =>
        /\ FinLeft(last.product) = last.quantity
        /\ FinArrived(last.product) = last.quantity

\* ---- two callers of distribute_product (SpecRace, SpecOpposite)
\* C18: with two fulfilments against the same source running concurrently,
\* their check and decrement steps interleaved, no held quantity ever
\* becomes negative and the two together never ship more units of a product
\* than the source held.
C18_NoOversell ==
    /\ \A p \in DOMAIN dInventory : dInventory[p] >= 0
    /\ \A p \in Products :
           Get(rInventory, p, 0) <= Get(last.dInventory, p, 0)

AllDone == \A t \in Threads : threads[t].pc = "done"

\* every caller that has touched a ledger touched the same ledger first
SameOrder ==
    \A t, u \in Threads :
        (threads[t].first # "none" /\ threads[u].first # "none") =>
            threads[t].first = threads[u].first

\* C19 (as claimed): two fulfilments moving stock in opposite directions
\* between the same two ledgers take the ledgers in one fixed global order,
\* and under fair scheduling both eventually finish (no deadlock).
C19_FixedOrderNoDeadlock == []SameOrder /\ <>AllDone

\* C19 (amended): the two fulfilments never deadlock and under fair
\* scheduling both eventually finish, each with a normal return or a
\* KeyError; no statement of a fulfilment waits for anything.
C19_BothFinish == <>[]AllDone

C19_Witness ==
    /\ AllDone
    /\ threads[1].first = "d"
    /\ threads[2].first = "r"
    /\ \A t \in Threads : threads[t].raised = "none"
    /\ \A t \in Threads : threads[t].quantity > 0
    /\ dInventory # last.dInventory

\* ---- the expiry sweep (SpecExpiry)
\* C20: when the total held quantity is less than the capacity (an empty
\* warehouse included), remove_expired_if_full removes nothing and leaves
\* the inventory mapping unchanged, whatever expiry dates the entries carry.
C20_SweepNotFull ==
    (last.op = "remove_expired_if_full"
        /\ Held(last.xInventory) < Capacity) =>
        xInventory = last.xInventory

C20_Witness ==
    /\ last.op = "remove_expired_if_full"
    /\ Held(last.xInventory) = Capacity - 1
    /\ last.raised = "none"
    /\ \E i \in DOMAIN last.xInventory :
           /\ last.xInventory[i].item.has_expiry
           /\ last.xInventory[i].item.expiry < last.today
    /\ xInventory = last.xInventory

\* an item whose expiry date is strictly before today
Expired(it, today) == it.has_expiry /\ it.expiry < today

\* after holds exactly the entries of before that are not expired
SweptTo(before, after, today) ==
    /\ {after[i] : i \in DOMAIN after}
           = {before[i] : i \in {j \in DOMAIN before :
                                     ~Expired(before[j].item, today)}}
    /\ Len(after) = Cardinality({after[i] : i \in DOMAIN after})

\* C21: on a warehouse at capacity the sweep removes exactly the entries
\* whose expiry date is strictly before the reference date, keeps every
\* entry that is not expired or has no expiry date, and returns the set of
\* the removed product ids (for the product.py manager, which is given no
\* date: for some reference date).
C21_SweepAtCapacity ==
    /\ (last.op = "remove_expired_if_full"
           /\ Held(last.xInventory) >= Capacity) =>
           /\ last.raised = "none"
           /\ SweptTo(last.xInventory, xInventory, last.today)
           /\ last.returned # None
    /\ (last.op = "product_remove_expired_if_full"
           /\ Held(last.xInventory) >= Capacity) =>
           /\ last.raised = "none"
           /\ \E today \in Dates :
                  SweptTo(last.xInventory, xInventory, today)
           /\ last.returned # None

\* ---- orders and their totals (SpecOrder)
\* the total the order reports is its quantity times its unit price
TotalIsProduct ==
    Order_get_order_value(order) = order.quantity * order.price_per_unit

\* a status update leaves quantity, unit price and total as they were
TotalKept ==
    /\ order'.quantity = order.quantity
    /\ order'.price_per_unit = order.price_per_unit
    /\ Order_get_order_value(order') = order.quantity * order.price_per_unit

\* the same of a FinancialBase Order, for every order and status update
FinTotalKept ==
    \A p \in Products, q \in Quantities, s \in Statuses :
        LET o == Fin_Order_init(1, p, q, FinPricePerUnit)
            u == Fin_update_order_status(o, s)
        IN  /\ o.status = "Pending"
            /\ Fin_calculate_total_price(o) = q * FinPricePerUnit
            /\ u.quantity = q
            /\ u.price_per_unit = FinPricePerUnit
            /\ Fin_calculate_total_price(u) = q * FinPricePerUnit

\* C25: a newly created order is Pending, and its total is always the
\* quantity times the unit price it was created with: status updates change
\* none of the three.
C25_TotalFixed ==
    /\ order.status = "Pending"
    /\ FinTotalKept
    /\ []TotalIsProduct
    /\ [][TotalKept]_vars

\* an order whose status has been updated twice still reports quantity
\* times unit price
C25_Witness ==
    /\ last.op = "update_status"
    /\ last.status = "Shipped"
    /\ order.status = "Delivered"
    /\ order.quantity = MaxQty
    /\ Order_get_order_value(order) = MaxQty * Price(order.product)

\* ---- orders placed with place_order (SpecFulfil)
\* C24: every order that exists has quantity > 0: place_order with a
\* quantity of 0 or less creates no order, and no order of such a quantity
\* is ever Shipped.
C24_QuantityPositive ==
    /\ \A i \in DOMAIN orders : orders[i].quantity > 0
    /\ (last.op = "place_order" /\ last.quantity <= 0) =>
           last.returned = None

\* ---- two retailers (SpecRetailers)
\* the order a place_order call has just created
Placed == IF last.op = "place_order" THEN orders[Len(orders)]
                                     ELSE orders2[Len(orders2)]

\* the ids of the orders created before it
EarlierIds ==
    IF last.op = "place_order"
    THEN {orders[i].order_id : i \in 1..(Len(orders) - 1)}
             \cup {orders2[i].order_id : i \in DOMAIN orders2}
    ELSE {orders2[i].order_id : i \in 1..(Len(orders2) - 1)}
             \cup {orders[i].order_id : i \in DOMAIN orders}

\* C23: over any sequence of order placements by any retailers, every new
\* order gets an id different from, and greater than, the id of every order
\* created before it.
C23_OrderIdsUnique ==
    last.op \in {"place_order", "place_order_2"} =>
        \A id \in EarlierIds : Placed.order_id > id

\* ---- fulfilment in final_SCMS.py (SpecFulfil)
\* C5: when the source holds fewer units of the ordered product than the
\* ordered quantity (or none), place_order sets the order to Cancelled,
\* raises nothing, and leaves both inventories exactly as they were.
C5_ShortStockCancels ==
    (last.op = "place_order"
        /\ Count(last.sInventory, last.product) < last.quantity) =>
        /\ orders[Len(orders)].status = "Cancelled"
        /\ last.raised = "none"
        /\ last.returned = None
        /\ sInventory = last.sInventory
        /\ sStore = last.sStore

C5_Witness ==
    /\ last.op = "place_order"
    /\ Count(last.sInventory, last.product) = 1
    /\ last.quantity = 2
    /\ orders[Len(orders)].status = "Cancelled"
    /\ sStore # <<>>

\* ---- shipments (SpecShipment)
\* the warehouse holds every pair of the shipment on top of what it held
StoredInFull(before, after, products) ==
    \A i \in DOMAIN products :
        Get(after, products[i].product_id, 0) =
            Get(before, products[i].product_id, 0) + products[i].quantity

\* C26: when deliver() has set a Shipment to Delivered, every (product id,
\* quantity) pair of it has been added in full to the destination
\* warehouse's inventory; a shipment that does not fit is not Delivered.
C26_DeliveredInFull ==
    (last.op = "deliver" /\ last.status # "Delivered"
         /\ shipment.status = "Delivered") =>
        StoredInFull(last.inventory, inventory, shipment.products)

\* C27: the products of a Shipment are stored at most once: deliver() on a
\* shipment whose products were stored before changes neither the warehouse
\* inventory nor the status.
C27_StoredOnce ==
    (last.op = "deliver" /\ last.stored) =>
        /\ inventory = last.inventory
        /\ shipment.status = last.status
\* ---- transports (SpecTransport)
\* C28: a Transportation's status only moves Pending -> In Transit ->
\* Delivered: Delivered is reached only from In Transit, In Transit is
\* entered only with at least one car loaded, and a Delivered transport
\* keeps its status.
C28_StatusForward ==
    /\ (transport.status = "Delivered" /\ last.status # "Delivered") =>
           last.status = "In Transit"
    /\ (transport.status = "In Transit" /\ last.status # "In Transit") =>
           /\ last.status = "Pending"
           /\ Sum(transport.cars) >= 1
    /\ last.status = "Delivered" => transport.status = "Delivered"
\* ---- payments (SpecPayments)
\* C29: the PaymentProcessor records each order id at most once: a repeated
\* id returns False and changes neither the transactions nor the balance, a
\* new id is recorded with its amount, and the balance is always the sum of
\* the recorded amounts.
C29_NoDuplicatePayments ==
    /\ processor.total_balance = Sum(processor.transactions)
    /\ last.op = "process_payment" =>
           IF last.order_id \in DOMAIN last.processor.transactions
           THEN /\ last.returned = FALSE
                /\ processor = last.processor
           ELSE /\ last.returned = TRUE
                /\ processor.transactions =
                       Put(last.processor.transactions, last.order_id,
                           last.amount)

\* a payment for an order id already recorded, with another amount, refused
C29_Witness ==
    /\ last.op = "process_payment"
    /\ last.returned = FALSE
    /\ last.amount # processor.transactions[last.order_id]
    /\ Cardinality(DOMAIN processor.transactions) = MaxOrders
\* ---- manufacturers (SpecManufacturer)
\* C30: a Manufacturer never holds more produced products than its
\* production capacity, and manufacture_product called at capacity returns
\* no product and leaves the produced list unchanged.
C30_WithinProductionCapacity ==
    /\ Len(manufacturer.products_produced) <= manufacturer.production_capacity
    /\ (last.op = "manufacture_product"
           /\ Len(last.products_produced) >= manufacturer.production_capacity) =>
           /\ last.returned = None
           /\ manufacturer.products_produced = last.products_produced

\* manufacture_product refused a valid product at a capacity of Capacity
C30_Witness ==
    /\ last.op = "manufacture_product"
    /\ last.price > 0
    /\ last.quantity > 0
    /\ last.returned = None
    /\ manufacturer.production_capacity = Capacity
    /\ Len(manufacturer.products_produced) = Capacity
====
